---- MODULE Spec2Model ----
(***************************************************************************)
(* The Marketplace contract of src/marketplace/lib.rs as a state machine.  *)
(* One action per contract message; each action is the whole body of the   *)
(* internal method the message delegates to.  Vectors are 0-based in the   *)
(* source and 1-based here: position i of a Vec is element i + 1.          *)
(***************************************************************************)
EXTENDS Integers, Sequences, FiniteSets, TLC

\* ------------------------------------------------------------- bounds
\* Longest catalog and order ledger explored by Spec.
MaxPubs == 1
MaxOrds == 2
\* Largest stock a publication is published with; the u64 range, scaled.
MaxStock == 2
\* Width of the u32 position counters, scaled down from 32 bits.
U32Bits == 2

U32Mod == 2 ^ U32Bits
U64Max == MaxStock

\* ------------------------------------------------------------- values
Accounts == {"a1", "a2", "a3"}
Rol == {"Comprador", "Vendedor", "Ambos"}
Estado == {"Pendiente", "Enviada", "Recibida", "Cancelada"}
Usernames == {"agustin"}
Nombres == {"Widget"}
Descripciones == {"desc"}
Precios == {100}
Categoria == {"Computacion"}
Stocks == 1 .. MaxStock
Cantidades == 1 .. MaxStock

\* Option::None of the checked arithmetic.
None == -1

VARIABLES
    usuarios,                \* Mapping<AccountId, Usuario>
    publicaciones,           \* Vec<Publicacion>
    ordenes_compra,          \* Vec<OrdenCompra>
    publicaciones_mapping,   \* Mapping<AccountId, Vec<u32>>
    ordenes_compra_mapping,  \* Mapping<AccountId, Vec<u32>>
    last,                    \* the last call: message, caller, arguments, Result
    antes,                   \* history: the five collections when the last call began
    stock_publicado,         \* history: the stock each publication was published with
    solicitudes              \* history: orders whose buyer's cancelar_orden returned Ok

ledger == <<usuarios, publicaciones, ordenes_compra,
            publicaciones_mapping, ordenes_compra_mapping>>
history == <<stock_publicado, solicitudes>>
vars == <<usuarios, publicaciones, ordenes_compra, publicaciones_mapping,
          ordenes_compra_mapping, last, antes, stock_publicado, solicitudes>>

\* ------------------------------------------------------------- helpers
\* Result<T, ErrorSistema>
Ok(v) == [ok |-> TRUE, err |-> "", val |-> v]
Err(e) == [ok |-> FALSE, err |-> e, val |-> <<>>]
Call(op, caller, args, res) == [op |-> op, caller |-> caller, args |-> args, res |-> res]

\* Mapping::insert and Mapping::get(..).unwrap_or_default()
Insert(m, k, v) == [x \in DOMAIN m \cup {k} |-> IF x = k THEN v ELSE m[x]]
GetOrDefault(m, k) == IF k \in DOMAIN m THEN m[k] ELSE <<>>

\* Vec::get(i) is Some exactly for 0 <= i < len
InRange(v, i) == 0 <= i /\ i < Len(v)
At(v, i) == v[i + 1]
\* Mutant: the written element moves to the end of the vector.
SetAt_al_final(v, i, x) == Append(SubSeq(v, 1, i) \o SubSeq(v, i + 2, Len(v)), x)
SetAt(v, i, x) == [v EXCEPT ![i + 1] = x]

\* `len as u32`: the truncating cast
AsU32(n) == n % U32Mod
checked_sub(a, b) == IF a >= b THEN a - b ELSE None
checked_add(a, b) == IF a + b <= U64Max THEN a + b ELSE None

\* Mutant: only the role Vendedor passes for a seller.
es_vendedor_solo(usuario) == usuario.rol = "Vendedor"

\* Mutant: every registered user passes for a seller.
es_vendedor_todos(usuario) == TRUE

\* Mutant: every registered user passes for a buyer.
es_comprador_todos(usuario) == TRUE

\* Usuario::es_vendedor, Usuario::es_comprador
es_vendedor(usuario) == usuario.rol # "Comprador"
es_comprador(usuario) == usuario.rol # "Vendedor"

\* Mutant: every publication gets the id of the first.
NewPublicacion_primera(id, nombre, descripcion, precio, categoria, stock, vendedor) ==
    [id_publicacion |-> 0, nombre |-> nombre, descripcion |-> descripcion,
     precio |-> precio, categoria |-> categoria, stock |-> stock,
     vendedor_id |-> vendedor]

\* Publicacion::new
NewPublicacion(id, nombre, descripcion, precio, categoria, stock, vendedor) ==
    [id_publicacion |-> id, nombre |-> nombre, descripcion |-> descripcion,
     precio |-> precio, categoria |-> categoria, stock |-> stock,
     vendedor_id |-> vendedor]

\* ------------------------------------------------------------- Init
Init ==
    /\ usuarios = << >>
    /\ publicaciones = << >>
    /\ ordenes_compra = << >>
    /\ publicaciones_mapping = << >>
    /\ ordenes_compra_mapping = << >>
    /\ last = Call("new", "", << >>, Ok(<< >>))
    /\ antes = << << >>, << >>, << >>, << >>, << >> >>
    /\ stock_publicado = << >>
    /\ solicitudes = {}

\* ------------------------------------------------------------- IdentityRegistry
\* Mutant: no caller is ever found registered.
YaRegistrado_nunca(caller) == FALSE

\* self.usuarios.get(caller).is_some()
YaRegistrado(caller) == caller \in DOMAIN usuarios

_registrar_usuario(caller, username, rol) ==
    LET args == <<username, rol>>
        usuario == [username |-> username, rol |-> rol, account_id |-> caller]
    IN  IF YaRegistrado(caller)
        THEN /\ last' = Call("registrar_usuario", caller, args, Err("UsuarioYaRegistrado"))
             /\ UNCHANGED <<ledger, history>>
        ELSE /\ usuarios' = Insert(usuarios, caller, usuario)
             /\ last' = Call("registrar_usuario", caller, args, Ok(usuario))
             /\ UNCHANGED <<publicaciones, ordenes_compra, publicaciones_mapping,
                            ordenes_compra_mapping, history>>

_get_usuario(caller) ==
    IF caller \in DOMAIN usuarios THEN Ok(usuarios[caller]) ELSE Err("UsuarioNoRegistrado")

\* Mutant: the role change renames the user.
RolCambiado_renombra(usuario, nuevo_rol) ==
    [usuario EXCEPT !.rol = nuevo_rol, !.username = "maria"]

\* Mutant: a user with both capabilities keeps them.
RolCambiado_sin_bajar(usuario, nuevo_rol) ==
    IF usuario.rol = "Ambos" THEN usuario ELSE [usuario EXCEPT !.rol = nuevo_rol]

\* usuario.rol = nuevo_rol
RolCambiado(usuario, nuevo_rol) == [usuario EXCEPT !.rol = nuevo_rol]

_cambiar_rol(caller, nuevo_rol) ==
    LET args == <<nuevo_rol>>
        r == _get_usuario(caller)
    IN  IF ~r.ok
        THEN /\ last' = Call("cambiar_rol", caller, args, r)
             /\ UNCHANGED <<ledger, history>>
        ELSE LET usuario == RolCambiado(r.val, nuevo_rol)
             IN  /\ usuarios' = Insert(usuarios, usuario.account_id, usuario)
                 /\ last' = Call("cambiar_rol", caller, args, Ok(usuario))
                 /\ UNCHANGED <<publicaciones, ordenes_compra, publicaciones_mapping,
                                ordenes_compra_mapping, history>>

registrar_usuario(entradas, usernames) ==
    \E e \in entradas, username \in usernames :
        /\ antes' = ledger
        /\ _registrar_usuario(e[1], username, e[2])

get_usuario ==
    \E caller \in Accounts :
        /\ last' = Call("get_usuario", caller, << >>, _get_usuario(caller))
        /\ UNCHANGED <<ledger, history>>
        /\ antes' = ledger

cambiar_rol(entradas) ==
    \E e \in entradas :
        /\ antes' = ledger
        /\ _cambiar_rol(e[1], e[2])

\* ------------------------------------------------------------- CatalogIndex
_publicar(caller, nombre, descripcion, precio, categoria, stock) ==
    LET args == <<nombre, descripcion, precio, categoria, stock>>
        r == _get_usuario(caller)
    IN  IF ~r.ok
        THEN /\ last' = Call("publicar", caller, args, r)
             /\ UNCHANGED <<ledger, history>>
        ELSE IF ~es_vendedor(r.val)
        THEN /\ last' = Call("publicar", caller, args, Err("UsuarioNoEsVendedor"))
             /\ UNCHANGED <<ledger, history>>
        ELSE LET usuario == r.val
                 publicacion == NewPublicacion(Len(publicaciones), nombre, descripcion,
                                               precio, categoria, stock, usuario.account_id)
                 pubs1 == Append(publicaciones, publicacion)
                 publicaciones_vendedor ==
                     GetOrDefault(publicaciones_mapping, usuario.account_id)
                 index_pub == checked_sub(AsU32(Len(pubs1)), 1)
             IN  /\ publicaciones' = pubs1
                 /\ stock_publicado' = Append(stock_publicado, stock)
                 /\ IF index_pub = None
                    THEN /\ last' = Call("publicar", caller, args,
                                         Err("UnderflowPublicaciones"))
                         /\ UNCHANGED publicaciones_mapping
                    ELSE /\ publicaciones_mapping' =
                                Insert(publicaciones_mapping, usuario.account_id,
                                       Append(publicaciones_vendedor, index_pub))
                         /\ last' = Call("publicar", caller, args, Ok(publicacion))
                 /\ UNCHANGED <<usuarios, ordenes_compra, ordenes_compra_mapping,
                                solicitudes>>

\* ids.iter().filter_map(|&i| v.get(i as usize)).cloned().collect()
Resolve(ids, v) ==
    LET found == SelectSeq(ids, LAMBDA i : InRange(v, i))
    IN  [k \in 1 .. Len(found) |-> At(v, found[k])]

_get_publicaciones_vendedor(caller) ==
    LET r == _get_usuario(caller)
    IN  IF ~r.ok THEN r
        ELSE IF ~es_vendedor(r.val) THEN Err("UsuarioNoEsVendedor")
        ELSE Ok(Resolve(GetOrDefault(publicaciones_mapping, r.val.account_id),
                        publicaciones))

_get_publicaciones(caller) ==
    LET r == _get_usuario(caller)
    IN  IF ~r.ok THEN r ELSE Ok(publicaciones)

\* ------------------------------------------------------------- OrderLedger
\* Mutant: the stock is decremented by one unit whatever the quantity.
StockDescontado_unidad(publicacion, cantidad) ==
    IF publicacion.stock >= cantidad THEN publicacion.stock - 1 ELSE None

\* Mutant: an order takes nothing from the stock.
StockDescontado_gratis(publicacion, cantidad) ==
    IF publicacion.stock >= cantidad THEN publicacion.stock ELSE None

\* Mutant: an order for the whole stock is refused as well.
StockDescontado_estricto(publicacion, cantidad) ==
    IF publicacion.stock > cantidad THEN publicacion.stock - cantidad ELSE None

\* publicacion.stock.checked_sub(cantidad as u64)
StockDescontado(publicacion, cantidad) == checked_sub(publicacion.stock, cantidad)

\* Mutant: the order keeps the publication as it was before the decrement.
NuevaOrden_sin_descontar(publicacion, comprador, cantidad) ==
    [estado |-> "Pendiente",
     publicacion |-> [publicacion EXCEPT !.stock = @ + cantidad],
     comprador_id |-> comprador, peticion_cancelacion |-> FALSE, cantidad |-> cantidad]

\* The OrdenCompra built from the updated publication.
NuevaOrden(publicacion, comprador, cantidad) ==
    [estado |-> "Pendiente", publicacion |-> publicacion, comprador_id |-> comprador,
     peticion_cancelacion |-> FALSE, cantidad |-> cantidad]

_ordenar_compra(caller, idx_publicacion, cantidad) ==
    LET args == <<idx_publicacion, cantidad>>
        r == _get_usuario(caller)
    IN  IF ~r.ok
        THEN /\ last' = Call("ordenar_compra", caller, args, r)
             /\ UNCHANGED <<ledger, history>>
        ELSE IF ~es_comprador(r.val)
        THEN /\ last' = Call("ordenar_compra", caller, args, Err("UsuarioNoEsComprador"))
             /\ UNCHANGED <<ledger, history>>
        ELSE IF ~InRange(publicaciones, idx_publicacion)
        THEN /\ last' = Call("ordenar_compra", caller, args, Err("PublicacionNoExistente"))
             /\ UNCHANGED <<ledger, history>>
        ELSE IF StockDescontado(At(publicaciones, idx_publicacion), cantidad) = None
        THEN /\ last' = Call("ordenar_compra", caller, args, Err("PublicacionSinStock"))
             /\ UNCHANGED <<ledger, history>>
        ELSE LET usuario == r.val
                 publicacion ==
                     [At(publicaciones, idx_publicacion) EXCEPT
                         !.stock = StockDescontado(At(publicaciones, idx_publicacion),
                                                   cantidad)]
                 orden_compra == NuevaOrden(publicacion, usuario.account_id, cantidad)
                 ords1 == Append(ordenes_compra, orden_compra)
                 ordenes_compra_comprador ==
                     GetOrDefault(ordenes_compra_mapping, usuario.account_id)
                 index_ord == checked_sub(AsU32(Len(ords1)), 1)
             IN  /\ publicaciones' = SetAt(publicaciones, idx_publicacion, publicacion)
                 /\ ordenes_compra' = ords1
                 /\ IF index_ord = None
                    THEN /\ last' = Call("ordenar_compra", caller, args,
                                         Err("UnderflowOrdenes"))
                         /\ UNCHANGED ordenes_compra_mapping
                    ELSE /\ ordenes_compra_mapping' =
                                Insert(ordenes_compra_mapping, usuario.account_id,
                                       Append(ordenes_compra_comprador, index_ord))
                         /\ last' = Call("ordenar_compra", caller, args, Ok(orden_compra))
                 /\ UNCHANGED <<usuarios, publicaciones_mapping, history>>

_get_ordenes_comprador(caller) ==
    LET r == _get_usuario(caller)
    IN  IF ~r.ok THEN r
        ELSE IF ~es_comprador(r.val) THEN Err("UsuarioNoEsComprador")
        ELSE Ok(Resolve(GetOrDefault(ordenes_compra_mapping, r.val.account_id),
                        ordenes_compra))

\* Mutant: the full order listing asks for the capability of a buyer.
_get_ordenes_de_compradores(caller) ==
    LET r == _get_usuario(caller)
    IN  IF ~r.ok THEN r
        ELSE IF ~es_comprador(r.val) THEN Err("UsuarioNoEsComprador")
        ELSE Ok(ordenes_compra)

_get_ordenes(caller) ==
    LET r == _get_usuario(caller)
    IN  IF ~r.ok THEN r ELSE Ok(ordenes_compra)

\* Mutant: a missing order has an error of its own.
OrdenInexistente_propia == Err("OrdenNoExistente")

\* ordenes_compra.get_mut(idx_orden as usize).ok_or(..): the error of a
\* missing order.
OrdenInexistente == Err("PublicacionNoExistente")

\* Mutant: shipping refreshes the snapshot's stock.
EnviarResultado_refresca(orden, usuario) ==
    CASE orden.estado = "Pendiente" ->
             IF orden.publicacion.vendedor_id # usuario.account_id
             THEN Err("NoEresVendedorDeLaOrden")
             ELSE Ok([orden EXCEPT !.estado = "Enviada", !.publicacion.stock = 0])
      [] orden.estado = "Enviada" -> Err("YaEnviada")
      [] orden.estado = "Recibida" -> Err("YaRecibido")
      [] orden.estado = "Cancelada" -> Err("OrdenCancelada")

\* Mutant: an order whose cancellation was requested is not shipped.
EnviarResultado_bloqueado(orden, usuario) ==
    CASE orden.estado = "Pendiente" ->
             IF orden.publicacion.vendedor_id # usuario.account_id
             THEN Err("NoEresVendedorDeLaOrden")
             ELSE IF orden.peticion_cancelacion THEN Err("OrdenPendiente")
             ELSE Ok([orden EXCEPT !.estado = "Enviada"])
      [] orden.estado = "Enviada" -> Err("YaEnviada")
      [] orden.estado = "Recibida" -> Err("YaRecibido")
      [] orden.estado = "Cancelada" -> Err("OrdenCancelada")

\* Mutant: any seller may ship a Pendiente order.
EnviarResultado_cualquiera(orden, usuario) ==
    CASE orden.estado = "Pendiente" -> Ok([orden EXCEPT !.estado = "Enviada"])
      [] orden.estado = "Enviada" -> Err("YaEnviada")
      [] orden.estado = "Recibida" -> Err("YaRecibido")
      [] orden.estado = "Cancelada" -> Err("OrdenCancelada")

\* Mutant: the owner is checked before the state.
EnviarResultado_dueno_primero(orden, usuario) ==
    IF orden.publicacion.vendedor_id # usuario.account_id
    THEN Err("NoEresVendedorDeLaOrden")
    ELSE CASE orden.estado = "Pendiente" -> Ok([orden EXCEPT !.estado = "Enviada"])
           [] orden.estado = "Enviada" -> Err("YaEnviada")
           [] orden.estado = "Recibida" -> Err("YaRecibido")
           [] orden.estado = "Cancelada" -> Err("OrdenCancelada")

\* The match of _marcar_enviado on the order's state.
EnviarResultado(orden, usuario) ==
    CASE orden.estado = "Pendiente" ->
             IF orden.publicacion.vendedor_id # usuario.account_id
             THEN Err("NoEresVendedorDeLaOrden")
             ELSE Ok([orden EXCEPT !.estado = "Enviada"])
      [] orden.estado = "Enviada" -> Err("YaEnviada")
      [] orden.estado = "Recibida" -> Err("YaRecibido")
      [] orden.estado = "Cancelada" -> Err("OrdenCancelada")

_marcar_enviado(caller, idx_orden) ==
    LET args == <<idx_orden>>
        r == _get_usuario(caller)
        res == IF ~r.ok THEN r
               ELSE IF ~es_vendedor(r.val) THEN Err("UsuarioNoEsVendedor")
               ELSE IF ~InRange(ordenes_compra, idx_orden)
               THEN OrdenInexistente
               ELSE EnviarResultado(At(ordenes_compra, idx_orden), r.val)
    IN  /\ last' = Call("marcar_enviado", caller, args, res)
        /\ ordenes_compra' = IF res.ok THEN SetAt(ordenes_compra, idx_orden, res.val)
                             ELSE ordenes_compra
        /\ UNCHANGED <<usuarios, publicaciones, publicaciones_mapping,
                       ordenes_compra_mapping, history>>

\* Mutant: receiving an order clears its cancellation request.
RecibirResultado_limpia(orden, usuario) ==
    CASE orden.estado = "Enviada" ->
             IF orden.comprador_id # usuario.account_id
             THEN Err("NoEresCompradorDeLaOrden")
             ELSE Ok([orden EXCEPT !.estado = "Recibida", !.peticion_cancelacion = FALSE])
      [] orden.estado = "Pendiente" -> Err("OrdenPendiente")
      [] orden.estado = "Recibida" -> Err("YaRecibido")
      [] orden.estado = "Cancelada" -> Err("OrdenCancelada")

\* Mutant: any buyer may receive an Enviada order.
RecibirResultado_cualquiera(orden, usuario) ==
    CASE orden.estado = "Enviada" -> Ok([orden EXCEPT !.estado = "Recibida"])
      [] orden.estado = "Pendiente" -> Err("OrdenPendiente")
      [] orden.estado = "Recibida" -> Err("YaRecibido")
      [] orden.estado = "Cancelada" -> Err("OrdenCancelada")

\* The match of _marcar_recibido on the order's state.
RecibirResultado(orden, usuario) ==
    CASE orden.estado = "Enviada" ->
             IF orden.comprador_id # usuario.account_id
             THEN Err("NoEresCompradorDeLaOrden")
             ELSE Ok([orden EXCEPT !.estado = "Recibida"])
      [] orden.estado = "Pendiente" -> Err("OrdenPendiente")
      [] orden.estado = "Recibida" -> Err("YaRecibido")
      [] orden.estado = "Cancelada" -> Err("OrdenCancelada")

_marcar_recibido(caller, idx_orden) ==
    LET args == <<idx_orden>>
        r == _get_usuario(caller)
        res == IF ~r.ok THEN r
               ELSE IF ~es_comprador(r.val) THEN Err("UsuarioNoEsComprador")
               ELSE IF ~InRange(ordenes_compra, idx_orden)
               THEN OrdenInexistente
               ELSE RecibirResultado(At(ordenes_compra, idx_orden), r.val)
    IN  /\ last' = Call("marcar_recibido", caller, args, res)
        /\ ordenes_compra' = IF res.ok THEN SetAt(ordenes_compra, idx_orden, res.val)
                             ELSE ordenes_compra
        /\ UNCHANGED <<usuarios, publicaciones, publicaciones_mapping,
                       ordenes_compra_mapping, history>>

\* Mutant: whoever is not the seller is taken for the buyer.
RamaCancelacion_ajeno_comprador(caller, orden) ==
    IF caller = orden.publicacion.vendedor_id /\ caller # orden.comprador_id
    THEN "vendedor" ELSE "comprador"

\* Mutant: whoever is not the buyer is taken for the seller.
RamaCancelacion_ajeno_vendedor(caller, orden) ==
    IF caller = orden.comprador_id THEN "comprador" ELSE "vendedor"

\* Mutant: once the buyer asked, any other account may approve.
RamaCancelacion_ajeno_aprueba(caller, orden) ==
    IF caller = orden.comprador_id THEN "comprador"
    ELSE IF caller = orden.publicacion.vendedor_id \/ orden.peticion_cancelacion
    THEN "vendedor"
    ELSE "ninguno"

\* Mutant: the seller branch is tried before the buyer branch.
RamaCancelacion_vendedor_primero(caller, orden) ==
    IF caller = orden.publicacion.vendedor_id THEN "vendedor"
    ELSE IF caller = orden.comprador_id THEN "comprador"
    ELSE "ninguno"

\* Mutant: the buyer may ask only once.
RamaCancelacion_una_peticion(caller, orden) ==
    IF caller = orden.comprador_id /\ ~orden.peticion_cancelacion THEN "comprador"
    ELSE IF caller = orden.publicacion.vendedor_id /\ caller # orden.comprador_id
    THEN "vendedor"
    ELSE "ninguno"

\* Which branch of "Logica segun rol" the caller takes.
RamaCancelacion(caller, orden) ==
    IF caller = orden.comprador_id THEN "comprador"
    ELSE IF caller = orden.publicacion.vendedor_id THEN "vendedor"
    ELSE "ninguno"

\* Mutant: the approval is given only to orders nobody asked to cancel.
PeticionFalta_invertida(orden) == orden.peticion_cancelacion

\* Mutant: the approval does not look at the request flag.
PeticionFalta_nunca(orden) == FALSE

\* The seller's approval is refused unless the buyer asked for the cancellation.
PeticionFalta(orden) == ~orden.peticion_cancelacion

\* Mutant: the approval adds the quantity twice.
StockRestaurado_doble(publicacion, orden) ==
    checked_add(publicacion.stock, 2 * orden.cantidad)

\* The stock written back by the seller's approval (None: overflow).
StockRestaurado(publicacion, orden) == checked_add(publicacion.stock, orden.cantidad)

\* Mutant: the approval writes to the first publication of the catalog.
PublicacionDeOrden_primera(orden) == 0

\* The catalog position the approval writes to.
PublicacionDeOrden(orden) == orden.publicacion.id_publicacion

\* Mutant: the state check is missing.
NoPendiente_nunca(orden) == FALSE

\* Mutant: only a Cancelada order is refused.
NoPendiente_solo_cancelada(orden) == orden.estado = "Cancelada"

\* The state check at the head of _cancelar_orden.
NoPendiente(orden) == orden.estado # "Pendiente"

_cancelar_orden(caller, idx_orden) ==
    LET args == <<idx_orden>>
        r == _get_usuario(caller)
        fail(e) == /\ last' = Call("cancelar_orden", caller, args, e)
                   /\ UNCHANGED <<ledger, history>>
    IN  IF ~r.ok THEN fail(r)
        ELSE IF ~InRange(ordenes_compra, idx_orden)
        THEN fail(OrdenInexistente)
        ELSE
        LET orden == At(ordenes_compra, idx_orden)
            rama == RamaCancelacion(caller, orden)
            id == PublicacionDeOrden(orden)
        IN  IF NoPendiente(orden) THEN fail(Err("OrdenNoPendiente"))
            ELSE IF rama = "comprador"
            THEN LET o1 == [orden EXCEPT !.peticion_cancelacion = TRUE]
                 IN  /\ ordenes_compra' = SetAt(ordenes_compra, idx_orden, o1)
                     /\ solicitudes' = solicitudes \cup {idx_orden}
                     /\ last' = Call("cancelar_orden", caller, args, Ok(o1))
                     /\ UNCHANGED <<usuarios, publicaciones, publicaciones_mapping,
                                    ordenes_compra_mapping, stock_publicado>>
            ELSE IF rama = "vendedor"
            THEN IF PeticionFalta(orden) THEN fail(Err("PeticionNoSolicitada"))
                 ELSE IF ~InRange(publicaciones, id)
                 THEN fail(Err("PublicacionNoExistente"))
                 ELSE IF StockRestaurado(At(publicaciones, id), orden) = None
                 THEN fail(Err("OverflowPublicaciones"))
                 ELSE LET o1 == [orden EXCEPT !.estado = "Cancelada"]
                          p1 == [At(publicaciones, id) EXCEPT
                                    !.stock = StockRestaurado(At(publicaciones, id), orden)]
                      IN  /\ publicaciones' = SetAt(publicaciones, id, p1)
                          /\ ordenes_compra' = SetAt(ordenes_compra, idx_orden, o1)
                          /\ last' = Call("cancelar_orden", caller, args, Ok(o1))
                          /\ UNCHANGED <<usuarios, publicaciones_mapping,
                                         ordenes_compra_mapping, history>>
            ELSE fail(Err("SinPermisos"))

\* ------------------------------------------------------------- messages
\* A publish that passes the user checks appends to the catalog.
PublicarAgrega(caller) == caller \in DOMAIN usuarios /\ es_vendedor(usuarios[caller])

\* An order that passes every check appends to the order ledger.
OrdenarAgrega(caller, idx, cantidad) ==
    /\ caller \in DOMAIN usuarios
    /\ es_comprador(usuarios[caller])
    /\ InRange(publicaciones, idx)
    /\ StockDescontado(At(publicaciones, idx), cantidad) # None

publicar(cap, stocks) ==
    \E caller \in Accounts, nombre \in Nombres, descripcion \in Descripciones,
       precio \in Precios, categoria \in Categoria, stock \in stocks :
        /\ PublicarAgrega(caller) => Len(publicaciones) < cap
        /\ antes' = ledger
        /\ _publicar(caller, nombre, descripcion, precio, categoria, stock)

ordenar_compra(cap, cantidades) ==
    \E caller \in Accounts, idx_publicacion \in 0 .. Len(publicaciones),
       cantidad \in cantidades :
        /\ OrdenarAgrega(caller, idx_publicacion, cantidad) => Len(ordenes_compra) < cap
        /\ antes' = ledger
        /\ _ordenar_compra(caller, idx_publicacion, cantidad)

marcar_enviado ==
    \E caller \in Accounts, idx_orden \in 0 .. Len(ordenes_compra) :
        /\ antes' = ledger
        /\ _marcar_enviado(caller, idx_orden)

marcar_recibido ==
    \E caller \in Accounts, idx_orden \in 0 .. Len(ordenes_compra) :
        /\ antes' = ledger
        /\ _marcar_recibido(caller, idx_orden)

cancelar_orden ==
    \E caller \in Accounts, idx_orden \in 0 .. Len(ordenes_compra) :
        /\ antes' = ledger
        /\ _cancelar_orden(caller, idx_orden)

get_publicaciones_vendedor ==
    \E caller \in Accounts :
        /\ last' = Call("get_publicaciones_vendedor", caller, << >>,
                        _get_publicaciones_vendedor(caller))
        /\ UNCHANGED <<ledger, history>>
        /\ antes' = ledger

get_publicaciones ==
    \E caller \in Accounts :
        /\ last' = Call("get_publicaciones", caller, << >>, _get_publicaciones(caller))
        /\ UNCHANGED <<ledger, history>>
        /\ antes' = ledger

get_ordenes_comprador ==
    \E caller \in Accounts :
        /\ last' = Call("get_ordenes_comprador", caller, << >>,
                        _get_ordenes_comprador(caller))
        /\ UNCHANGED <<ledger, history>>
        /\ antes' = ledger

get_ordenes ==
    \E caller \in Accounts :
        /\ last' = Call("get_ordenes", caller, << >>, _get_ordenes(caller))
        /\ UNCHANGED <<ledger, history>>
        /\ antes' = ledger

\* ------------------------------------------------------------- specifications
\* Registration inputs of the ledger specifications: a seller, a buyer and an
\* account with both capabilities.
RolesFijos == {<<"a1", "Vendedor">>, <<"a2", "Comprador">>, <<"a3", "Ambos">>}

\* The order lifecycle over one catalog of MaxPubs publications.
Next ==
    \/ registrar_usuario(RolesFijos, Usernames)
    \/ publicar(MaxPubs, 0 .. MaxStock)
    \/ ordenar_compra(MaxOrds, Cantidades)
    \/ marcar_enviado
    \/ marcar_recibido
    \/ cancelar_orden

Spec == Init /\ [][Next]_vars

\* The same lifecycle with one more publication and one order less.
NextCatalogo ==
    \/ registrar_usuario(RolesFijos, Usernames)
    \/ publicar(MaxPubs + 1, Stocks)
    \/ ordenar_compra(MaxOrds - 1, Cantidades)
    \/ marcar_enviado
    \/ marcar_recibido
    \/ cancelar_orden

SpecCatalogo == Init /\ [][NextCatalogo]_vars

\* The identity registry alone, every account free to take and change any role.
NextRegistro ==
    \/ registrar_usuario(Accounts \X Rol, Usernames \cup {"maria"})
    \/ get_usuario
    \/ cambiar_rol(Accounts \X Rol)

SpecRegistro == Init /\ [][NextRegistro]_vars

\* The catalog filled past the range of the u32 position counter.
NextDesborde ==
    \/ registrar_usuario(RolesFijos, Usernames)
    \/ publicar(U32Mod + 1, {MaxStock})
    \/ get_publicaciones_vendedor

SpecDesborde == Init /\ [][NextDesborde]_vars

\* The order ledger filled past the range of the u32 position counter, with
\* orders of no unit and of one unit on one publication.
NextDesbordeOrdenes ==
    \/ registrar_usuario(RolesFijos, Usernames)
    \/ publicar(MaxPubs, {MaxStock})
    \/ ordenar_compra(U32Mod + 1, 0 .. 1)
    \/ get_publicaciones
    \/ get_ordenes_comprador
    \/ get_ordenes

SpecDesbordeOrdenes == Init /\ [][NextDesbordeOrdenes]_vars

\* The order lifecycle of one-unit orders while the seller a1 changes role.
NextCambioDeRol ==
    \/ registrar_usuario(RolesFijos, Usernames)
    \/ cambiar_rol({"a1"} \X Rol)
    \/ publicar(MaxPubs, {MaxStock})
    \/ ordenar_compra(MaxOrds, {1})
    \/ marcar_enviado
    \/ marcar_recibido
    \/ cancelar_orden

SpecCambioDeRol == Init /\ [][NextCambioDeRol]_vars

\* ------------------------------------------------------------- the pre-call snapshot
antes_usuarios == antes[1]
antes_publicaciones == antes[2]
antes_ordenes == antes[3]
antes_publicaciones_mapping == antes[4]
antes_ordenes_mapping == antes[5]

\* Catalog and order positions, 0-based as in the source.
PosPubs == 0 .. Len(publicaciones) - 1
PosOrds == 0 .. Len(ordenes_compra) - 1
PosOrdsAntes == 0 .. Len(antes_ordenes) - 1

\* The quantities of the first n orders placed against publication p whose
\* state is in `estados`, summed.
RECURSIVE Cantidad(_, _, _)
Cantidad(n, p, estados) ==
    IF n = 0 THEN 0
    ELSE Cantidad(n - 1, p, estados)
         + (IF /\ ordenes_compra[n].publicacion.id_publicacion = p
               /\ ordenes_compra[n].estado \in estados
            THEN ordenes_compra[n].cantidad ELSE 0)

Reservado(p) == Cantidad(Len(ordenes_compra), p, Estado \ {"Cancelada"})
Cancelado(p) == Cantidad(Len(ordenes_compra), p, {"Cancelada"})
Colocado(p) == Cantidad(Len(ordenes_compra), p, Estado)

\* Every message of the contract, role changes included, over one publication
\* of one unit and one order.
NextValidacion ==
    \/ registrar_usuario(Accounts \X Rol, Usernames)
    \/ get_usuario
    \/ cambiar_rol(Accounts \X Rol)
    \/ publicar(MaxPubs, {1})
    \/ get_publicaciones_vendedor
    \/ get_publicaciones
    \/ ordenar_compra(MaxOrds - 1, {1})
    \/ get_ordenes_comprador
    \/ get_ordenes
    \/ marcar_enviado
    \/ marcar_recibido
    \/ cancelar_orden

SpecValidacion == Init /\ [][NextValidacion]_vars

\* ------------------------------------------------------------- claims
\* C1: in every reachable state, for every publication p, stock(p) plus the
\* quantities of the orders against p that are not Cancelada equals the stock p
\* was published with; so stock(p) >= 0 and the outstanding reservations never
\* exceed the published stock.
C1_StockMasReservas ==
    /\ Len(stock_publicado) = Len(publicaciones)
    /\ \A p \in PosPubs :
        /\ At(publicaciones, p).stock + Reservado(p) = At(stock_publicado, p)
        /\ At(publicaciones, p).stock >= 0
        /\ Reservado(p) <= At(stock_publicado, p)

\* C1 witness: a publication with an outstanding reservation next to a cancelled
\* order whose quantity went back to the stock.
C1_Witness ==
    \E p \in PosPubs :
        /\ Reservado(p) > 0
        /\ Cancelado(p) > 0
        /\ At(publicaciones, p).stock > 0

\* C2 as written: stock = published stock - (orders not Cancelada) + (orders
\* Cancelada).  The code refutes it as soon as one order is cancelled.
C2_Literal ==
    \A p \in PosPubs :
        /\ At(publicaciones, p).stock >= 0
        /\ At(publicaciones, p).stock =
               At(stock_publicado, p) - Reservado(p) + Cancelado(p)

\* C2 amended: a publication's stock is >= 0 and equals the stock it was
\* published with, minus the quantities of all orders placed against it, plus
\* the quantities of those of them that reached Cancelada.
C2_StockColocadoCancelado ==
    \A p \in PosPubs :
        /\ At(publicaciones, p).stock >= 0
        /\ At(publicaciones, p).stock =
               At(stock_publicado, p) - Colocado(p) + Cancelado(p)

\* C2 witness: a cancelled order and a live one against the same publication.
C2_Witness ==
    \E p \in PosPubs : Cancelado(p) > 0 /\ Colocado(p) > Cancelado(p)

\* The order a marcar_enviado, marcar_recibido or cancelar_orden call named,
\* as it was when the call began.
LlamadaSobreOrden(op) ==
    /\ last.op = op
    /\ InRange(antes_ordenes, last.args[1])
OrdenAntes == At(antes_ordenes, last.args[1])
OrdenAhora == At(ordenes_compra, last.args[1])

Transiciones ==
    {<<"Pendiente", "Enviada">>, <<"Enviada", "Recibida">>, <<"Pendiente", "Cancelada">>}

\* C3: every order is created Pendiente, and in every call an existing order
\* keeps its state or takes exactly one of Pendiente->Enviada, Enviada->Recibida,
\* Pendiente->Cancelada; Recibida and Cancelada are never left.
C3_Transiciones ==
    /\ Len(antes_ordenes) <= Len(ordenes_compra)
    /\ \A i \in 1 .. Len(antes_ordenes) :
        \/ antes_ordenes[i].estado = ordenes_compra[i].estado
        \/ <<antes_ordenes[i].estado, ordenes_compra[i].estado>> \in Transiciones
    /\ \A i \in Len(antes_ordenes) + 1 .. Len(ordenes_compra) :
        ordenes_compra[i].estado = "Pendiente"

\* C3 witness: the last call moved an order from Enviada to Recibida while
\* another order of the ledger is Cancelada.
C3_Witness ==
    /\ \E i \in 1 .. Len(antes_ordenes) :
        antes_ordenes[i].estado = "Enviada" /\ ordenes_compra[i].estado = "Recibida"
    /\ \E j \in 1 .. Len(ordenes_compra) : ordenes_compra[j].estado = "Cancelada"

\* C4: an order's state or cancellation flag changes only in a call by its buyer
\* or its snapshot seller: marcar_enviado and the approval of a cancellation by
\* the seller, marcar_recibido and the cancellation request by the buyer.
C4_SoloLasPartes ==
    \A i \in 1 .. Len(antes_ordenes) :
        LET a == antes_ordenes[i]
            b == ordenes_compra[i]
        IN  (a.estado # b.estado \/ a.peticion_cancelacion # b.peticion_cancelacion) =>
                /\ last.op \in {"marcar_enviado", "marcar_recibido", "cancelar_orden"}
                /\ last.args = <<i - 1>>
                /\ last.caller \in {a.comprador_id, a.publicacion.vendedor_id}
                /\ last.op = "marcar_enviado" => last.caller = a.publicacion.vendedor_id
                /\ last.op = "marcar_recibido" => last.caller = a.comprador_id
                /\ last.op = "cancelar_orden" =>
                       IF b.estado = "Cancelada"
                       THEN last.caller = a.publicacion.vendedor_id
                       ELSE last.caller = a.comprador_id

\* C4 witness: an account that is neither the buyer nor the seller called
\* cancelar_orden on a Pendiente order and the order is as it was.
C4_Witness ==
    /\ LlamadaSobreOrden("cancelar_orden")
    /\ last.caller \notin {OrdenAntes.comprador_id, OrdenAntes.publicacion.vendedor_id}
    /\ last.caller \in DOMAIN usuarios
    /\ OrdenAntes.estado = "Pendiente"
    /\ OrdenAhora = OrdenAntes

\* C5: an order becomes Cancelada (and its stock returns) only in a
\* cancelar_orden call by its snapshot seller that comes after a successful
\* cancelar_orden call by its buyer on the same order.
C5_ConsentimientoDeAmbos ==
    /\ \A i \in PosOrds : At(ordenes_compra, i).estado = "Cancelada" => i \in solicitudes
    /\ \A i \in PosOrdsAntes :
        (At(antes_ordenes, i).estado # "Cancelada"
            /\ At(ordenes_compra, i).estado = "Cancelada") =>
                /\ last.op = "cancelar_orden"
                /\ last.args = <<i>>
                /\ last.res.ok
                /\ last.caller = At(antes_ordenes, i).publicacion.vendedor_id
                /\ last.caller # At(antes_ordenes, i).comprador_id
                /\ i \in solicitudes
    /\ \A p \in 0 .. Len(antes_publicaciones) - 1 :
        At(publicaciones, p).stock > At(antes_publicaciones, p).stock =>
            \E i \in PosOrdsAntes :
                /\ At(antes_ordenes, i).publicacion.id_publicacion = p
                /\ At(antes_ordenes, i).estado = "Pendiente"
                /\ At(ordenes_compra, i).estado = "Cancelada"

\* C5 witness: the seller's approval has just cancelled an order.
C5_Witness ==
    /\ LlamadaSobreOrden("cancelar_orden")
    /\ last.res.ok
    /\ OrdenAntes.estado = "Pendiente"
    /\ OrdenAhora.estado = "Cancelada"

OtrasSinCambio(p) ==
    \A q \in 0 .. Len(antes_publicaciones) - 1 :
        q # p => At(publicaciones, q).stock = At(antes_publicaciones, q).stock

\* C7: an order's quantity is added back to the stock at most once, by exactly
\* the order's quantity, in the call that makes the order Cancelada, and on the
\* publication whose stock its placement decremented (every other stock
\* unchanged); every later cancelar_orden on it by either party fails with
\* OrdenNoPendiente and changes no stock.
C7_RestauraUnaVez ==
    \* a placement decrements the publication the order's snapshot names
    /\ (last.op = "ordenar_compra" /\ Len(ordenes_compra) > Len(antes_ordenes)) =>
        LET o == ordenes_compra[Len(ordenes_compra)]
        IN  /\ o.publicacion.id_publicacion = last.args[1]
            /\ At(publicaciones, last.args[1]).stock =
                   At(antes_publicaciones, last.args[1]).stock - o.cantidad
            /\ OtrasSinCambio(last.args[1])
    \* the call that cancels an order adds its quantity to that publication
    /\ \A i \in PosOrdsAntes :
        LET a == At(antes_ordenes, i)
            p == a.publicacion.id_publicacion
        IN  (a.estado # "Cancelada" /\ At(ordenes_compra, i).estado = "Cancelada") =>
                /\ At(publicaciones, p).stock = At(antes_publicaciones, p).stock + a.cantidad
                /\ OtrasSinCambio(p)
    \* a stock grows in no other call
    /\ \A p \in 0 .. Len(antes_publicaciones) - 1 :
        At(publicaciones, p).stock > At(antes_publicaciones, p).stock =>
            \E i \in PosOrdsAntes :
                /\ At(antes_ordenes, i).publicacion.id_publicacion = p
                /\ At(antes_ordenes, i).estado = "Pendiente"
                /\ At(ordenes_compra, i).estado = "Cancelada"
    \* a Cancelada order stays Cancelada, and cancelling it again fails
    /\ \A i \in PosOrdsAntes :
        At(antes_ordenes, i).estado = "Cancelada" =>
            At(ordenes_compra, i).estado = "Cancelada"
    /\ (/\ LlamadaSobreOrden("cancelar_orden")
        /\ OrdenAntes.estado = "Cancelada"
        /\ last.caller \in {OrdenAntes.comprador_id, OrdenAntes.publicacion.vendedor_id}) =>
            /\ last.res = Err("OrdenNoPendiente")
            /\ publicaciones = antes_publicaciones
            /\ ordenes_compra = antes_ordenes

\* C7 witness: with two publications in the catalog, a party called
\* cancelar_orden on an order that the seller's approval had already cancelled.
C7_Witness ==
    /\ Len(publicaciones) = 2
    /\ LlamadaSobreOrden("cancelar_orden")
    /\ OrdenAntes.estado = "Cancelada"
    /\ OrdenAntes.publicacion.id_publicacion = 1
    /\ last.caller \in {OrdenAntes.comprador_id, OrdenAntes.publicacion.vendedor_id}
    /\ At(publicaciones, 1).stock = At(stock_publicado, 1)

\* C8: on any Pendiente order with the request flag set, buyer and seller
\* possibly the same account, cancelar_orden by the snapshot seller succeeds,
\* makes the order Cancelada and adds its quantity to the stock.
C8_Literal ==
    (/\ LlamadaSobreOrden("cancelar_orden")
     /\ OrdenAntes.estado = "Pendiente"
     /\ OrdenAntes.peticion_cancelacion
     /\ last.caller = OrdenAntes.publicacion.vendedor_id) =>
        LET p == OrdenAntes.publicacion.id_publicacion
        IN  /\ last.res.ok
            /\ OrdenAhora.estado = "Cancelada"
            /\ At(publicaciones, p).stock =
                   At(antes_publicaciones, p).stock + OrdenAntes.cantidad

\* The approval of C8 for an order whose buyer is not its snapshot seller: the
\* caller reaches the seller branch of _cancelar_orden.
C8_AprobacionDelVendedor ==
    (/\ LlamadaSobreOrden("cancelar_orden")
     /\ OrdenAntes.estado = "Pendiente"
     /\ OrdenAntes.peticion_cancelacion
     /\ last.caller = OrdenAntes.publicacion.vendedor_id
     /\ last.caller # OrdenAntes.comprador_id) =>
        LET p == OrdenAntes.publicacion.id_publicacion
        IN  /\ last.res.ok
            /\ last.res.val = OrdenAhora
            /\ OrdenAhora = [OrdenAntes EXCEPT !.estado = "Cancelada"]
            /\ At(publicaciones, p).stock =
                   At(antes_publicaciones, p).stock + OrdenAntes.cantidad

\* C9: every operation that returns an error leaves the five collections as
\* they were before the call; no operation fails after applying part of its
\* writes.
C9_SinEscrituraParcial ==
    (~last.res.ok) => ledger = antes

\* The record a successful registration of the last call stores.
UsuarioDeLaLlamada ==
    [username |-> last.args[1], rol |-> last.args[2], account_id |-> last.caller]

\* C10, state part: a registration by an unregistered caller stores exactly the
\* given name and role under the caller and returns that record; a registration
\* by a registered caller fails with UsuarioYaRegistrado and leaves the stored
\* records as they were; a lookup by an unregistered caller fails with
\* UsuarioNoRegistrado and a lookup by a registered one returns the stored record.
C10_Estado ==
    /\ (last.op = "registrar_usuario" /\ last.caller \notin DOMAIN antes_usuarios) =>
        /\ last.res = Ok(UsuarioDeLaLlamada)
        /\ DOMAIN usuarios = DOMAIN antes_usuarios \cup {last.caller}
        /\ usuarios[last.caller] = UsuarioDeLaLlamada
        /\ \A a \in DOMAIN antes_usuarios : usuarios[a] = antes_usuarios[a]
    /\ (last.op = "registrar_usuario" /\ last.caller \in DOMAIN antes_usuarios) =>
        /\ last.res = Err("UsuarioYaRegistrado")
        /\ ledger = antes
    /\ (last.op = "get_usuario" /\ last.caller \notin DOMAIN antes_usuarios) =>
        last.res = Err("UsuarioNoRegistrado")
    /\ (last.op = "get_usuario" /\ last.caller \in DOMAIN antes_usuarios) =>
        last.res = Ok(antes_usuarios[last.caller])

\* C10, step part: a lookup that immediately follows a successful registration
\* by the same caller returns the record just registered.
C10_RegistroLuegoConsulta ==
    (/\ last.op = "registrar_usuario"
     /\ last.res.ok
     /\ last'.op = "get_usuario"
     /\ last'.caller = last.caller) =>
        last'.res = Ok(UsuarioDeLaLlamada)

\* C10: registration stores the given name and role and an immediately
\* following lookup by the same caller returns that record; a second
\* registration fails with UsuarioYaRegistrado and leaves the stored record,
\* changed role included, unchanged; a lookup by an unregistered caller fails
\* with UsuarioNoRegistrado.
C10_RegistroYConsulta ==
    /\ []C10_Estado
    /\ [][C10_RegistroLuegoConsulta]_vars

\* C10 witness: a registered caller whose stored record differs in name and
\* role from the arguments was refused a second registration.
C10_Witness ==
    /\ last.op = "registrar_usuario"
    /\ last.res = Err("UsuarioYaRegistrado")
    /\ usuarios[last.caller].username # last.args[1]
    /\ usuarios[last.caller].rol # last.args[2]

\* The caller of the last call was registered when it began, with the
\* capability of a buyer or of a seller.
LlamadorRegistrado == last.caller \in DOMAIN antes_usuarios
LlamadorComprador == LlamadorRegistrado /\ es_comprador(antes_usuarios[last.caller])
LlamadorVendedor == LlamadorRegistrado /\ es_vendedor(antes_usuarios[last.caller])

\* C11: ordenar_compra by a registered buyer on an existing publication fails
\* with PublicacionSinStock exactly when the quantity is greater than the
\* publication's stock, and then no order is appended, the buyer index is
\* unchanged and the stock keeps its value.
C11_SinStock ==
    (/\ last.op = "ordenar_compra"
     /\ LlamadorComprador
     /\ InRange(antes_publicaciones, last.args[1])) =>
        /\ (last.res.err = "PublicacionSinStock") <=>
               (last.args[2] > At(antes_publicaciones, last.args[1]).stock)
        /\ (last.res.err = "PublicacionSinStock") =>
               /\ ordenes_compra = antes_ordenes
               /\ ordenes_compra_mapping = antes_ordenes_mapping
               /\ publicaciones = antes_publicaciones

\* C11 witness: two units were asked of a publication that has one left, after
\* an earlier order took the other.
C11_Witness ==
    /\ last.op = "ordenar_compra"
    /\ last.res.err = "PublicacionSinStock"
    /\ last.args[2] = 2
    /\ At(publicaciones, last.args[1]).stock = 1
    /\ Len(ordenes_compra) = 1

\* C12: a successful ordenar_compra(p, q) decreases the stock of publication p
\* by exactly q, appends exactly one order (Pendiente, buyer = caller, flag
\* false, quantity q, snapshot = p's catalog record after the decrement) at the
\* end of the order sequence, appends its position to the caller's buyer index
\* and changes nothing else.
C12_OrdenColocada ==
    (last.op = "ordenar_compra" /\ last.res.ok) =>
        LET p == last.args[1]
            q == last.args[2]
            n == Len(antes_ordenes)
            previas == IF last.caller \in DOMAIN antes_ordenes_mapping
                       THEN antes_ordenes_mapping[last.caller] ELSE << >>
        IN  /\ InRange(antes_publicaciones, p)
            /\ Len(publicaciones) = Len(antes_publicaciones)
            /\ \A i \in PosPubs :
                At(publicaciones, i) =
                    IF i = p
                    THEN [At(antes_publicaciones, p) EXCEPT !.stock = @ - q]
                    ELSE At(antes_publicaciones, i)
            /\ Len(ordenes_compra) = n + 1
            /\ SubSeq(ordenes_compra, 1, n) = antes_ordenes
            /\ At(ordenes_compra, n).estado = "Pendiente"
            /\ At(ordenes_compra, n).comprador_id = last.caller
            /\ At(ordenes_compra, n).peticion_cancelacion = FALSE
            /\ At(ordenes_compra, n).cantidad = q
            /\ At(ordenes_compra, n).publicacion = At(publicaciones, p)
            /\ last.res.val = At(ordenes_compra, n)
            /\ DOMAIN ordenes_compra_mapping = DOMAIN antes_ordenes_mapping \cup {last.caller}
            /\ ordenes_compra_mapping[last.caller] = Append(previas, n)
            /\ \A a \in DOMAIN antes_ordenes_mapping \ {last.caller} :
                ordenes_compra_mapping[a] = antes_ordenes_mapping[a]
            /\ usuarios = antes_usuarios
            /\ publicaciones_mapping = antes_publicaciones_mapping

\* C12 witness: a buyer who already had an order placed a second one, of one
\* unit, on a publication that another buyer had ordered from.
C12_Witness ==
    /\ last.op = "ordenar_compra"
    /\ last.res.ok
    /\ Len(antes_ordenes) = 1
    /\ At(antes_ordenes, 0).comprador_id # last.caller
    /\ At(ordenes_compra, 1).publicacion.stock = 0

\* C13: marcar_enviado on a Pendiente order by a registered caller with role
\* Vendedor or Ambos makes the order Enviada if and only if the caller is the
\* seller of the order's publication snapshot; any other such caller gets
\* NoEresVendedorDeLaOrden and the order stays Pendiente.
C13_EnviaSoloElVendedor ==
    (/\ LlamadaSobreOrden("marcar_enviado")
     /\ LlamadorVendedor
     /\ OrdenAntes.estado = "Pendiente") =>
        IF last.caller = OrdenAntes.publicacion.vendedor_id
        THEN /\ last.res.ok
             /\ OrdenAhora = [OrdenAntes EXCEPT !.estado = "Enviada"]
             /\ last.res.val = OrdenAhora
        ELSE /\ last.res.err = "NoEresVendedorDeLaOrden"
             /\ OrdenAhora = OrdenAntes
             /\ ledger = antes

\* C13 witness: a seller-capable account that is not the order's seller was
\* refused on a Pendiente order.
C13_Witness ==
    /\ LlamadaSobreOrden("marcar_enviado")
    /\ LlamadorVendedor
    /\ last.caller # OrdenAntes.publicacion.vendedor_id
    /\ last.res.err = "NoEresVendedorDeLaOrden"
    /\ OrdenAhora.estado = "Pendiente"

\* The error marcar_enviado gives for an order that is not Pendiente.
ErrorDeEnvio(estado) ==
    CASE estado = "Enviada" -> "YaEnviada"
      [] estado = "Recibida" -> "YaRecibido"
      [] estado = "Cancelada" -> "OrdenCancelada"

\* C14: marcar_enviado by any registered seller-capable caller, owner of the
\* order or not, on an order that is not Pendiente fails with the error its
\* state alone determines (YaEnviada, YaRecibido, OrdenCancelada) and leaves
\* the order unchanged; no order is shipped twice.
C14_EnvioSegunEstado ==
    (/\ LlamadaSobreOrden("marcar_enviado")
     /\ LlamadorVendedor
     /\ OrdenAntes.estado # "Pendiente") =>
        /\ last.res.err = ErrorDeEnvio(OrdenAntes.estado)
        /\ ledger = antes

\* C14 witness: a seller-capable account that is not the order's seller called
\* marcar_enviado on an order already Enviada.
C14_Witness ==
    /\ LlamadaSobreOrden("marcar_enviado")
    /\ LlamadorVendedor
    /\ last.caller # OrdenAntes.publicacion.vendedor_id
    /\ OrdenAntes.estado = "Enviada"
    /\ last.res.err = "YaEnviada"

\* The error marcar_recibido gives to a buyer-capable caller.
ErrorDeRecepcion(orden, caller) ==
    CASE orden.estado = "Enviada" ->
             IF caller = orden.comprador_id THEN "" ELSE "NoEresCompradorDeLaOrden"
      [] orden.estado = "Pendiente" -> "OrdenPendiente"
      [] orden.estado = "Recibida" -> "YaRecibido"
      [] orden.estado = "Cancelada" -> "OrdenCancelada"

\* C15: marcar_recibido by a registered buyer-capable caller makes the order
\* Recibida if and only if it is Enviada and the caller is its buyer; on
\* Enviada another caller gets NoEresCompradorDeLaOrden, on Pendiente
\* OrdenPendiente, on Recibida YaRecibido, on Cancelada OrdenCancelada, and
\* every failure leaves the order unchanged.
C15_RecibeSoloElComprador ==
    (LlamadaSobreOrden("marcar_recibido") /\ LlamadorComprador) =>
        /\ last.res.err = ErrorDeRecepcion(OrdenAntes, last.caller)
        /\ last.res.ok <=>
               (OrdenAntes.estado = "Enviada" /\ last.caller = OrdenAntes.comprador_id)
        /\ last.res.ok =>
               /\ OrdenAhora = [OrdenAntes EXCEPT !.estado = "Recibida"]
               /\ last.res.val = OrdenAhora
        /\ ~last.res.ok => (OrdenAhora = OrdenAntes /\ ledger = antes)

\* C15 witness: the buyer called marcar_recibido a second time, on the order
\* already Recibida, next to an order that is still Pendiente.
C15_Witness ==
    /\ LlamadaSobreOrden("marcar_recibido")
    /\ last.caller = OrdenAntes.comprador_id
    /\ OrdenAntes.estado = "Recibida"
    /\ last.res.err = "YaRecibido"
    /\ \E i \in PosOrds : At(ordenes_compra, i).estado = "Pendiente"

\* C16: cancelar_orden on a Pendiente order by a registered caller who is
\* neither the order's buyer nor its snapshot seller fails with SinPermisos,
\* whatever the caller's role and whether or not the cancellation was already
\* requested, and leaves the order's flag and state and the stock unchanged.
C16_AjenoSinPermisos ==
    (/\ LlamadaSobreOrden("cancelar_orden")
     /\ LlamadorRegistrado
     /\ OrdenAntes.estado = "Pendiente"
     /\ last.caller # OrdenAntes.comprador_id
     /\ last.caller # OrdenAntes.publicacion.vendedor_id) =>
        /\ last.res.err = "SinPermisos"
        /\ OrdenAhora = OrdenAntes
        /\ ledger = antes

\* C16 witness: an account foreign to the order was refused after the buyer had
\* asked for the cancellation.
C16_Witness ==
    /\ LlamadaSobreOrden("cancelar_orden")
    /\ last.caller # OrdenAntes.comprador_id
    /\ last.caller # OrdenAntes.publicacion.vendedor_id
    /\ OrdenAntes.peticion_cancelacion
    /\ last.res.err = "SinPermisos"

\* C17: cancelar_orden on an existing order that is Enviada, Recibida or
\* Cancelada fails with OrdenNoPendiente for every registered caller (buyer,
\* seller or foreign account) and changes neither the order nor any stock.
C17_SoloPendienteSeCancela ==
    (/\ LlamadaSobreOrden("cancelar_orden")
     /\ LlamadorRegistrado
     /\ OrdenAntes.estado # "Pendiente") =>
        /\ last.res.err = "OrdenNoPendiente"
        /\ OrdenAhora = OrdenAntes
        /\ ledger = antes

\* C17 witness: an account foreign to an Enviada order got OrdenNoPendiente,
\* not SinPermisos.
C17_Witness ==
    /\ LlamadaSobreOrden("cancelar_orden")
    /\ OrdenAntes.estado = "Enviada"
    /\ last.caller # OrdenAntes.comprador_id
    /\ last.caller # OrdenAntes.publicacion.vendedor_id
    /\ last.res.err = "OrdenNoPendiente"

\* C18: cancelar_orden by the order's buyer on a Pendiente order sets
\* peticion_cancelacion, keeps the state Pendiente and changes no stock; a
\* repeated call succeeds and leaves the ledger as the first call left it.
C18_PeticionIdempotente ==
    (/\ LlamadaSobreOrden("cancelar_orden")
     /\ last.caller = OrdenAntes.comprador_id
     /\ OrdenAntes.estado = "Pendiente") =>
        /\ last.res.ok
        /\ OrdenAhora = [OrdenAntes EXCEPT !.peticion_cancelacion = TRUE]
        /\ last.res.val = OrdenAhora
        /\ ordenes_compra = SetAt(antes_ordenes, last.args[1], OrdenAhora)
        /\ publicaciones = antes_publicaciones
        /\ usuarios = antes_usuarios
        /\ publicaciones_mapping = antes_publicaciones_mapping
        /\ ordenes_compra_mapping = antes_ordenes_mapping
        /\ OrdenAntes.peticion_cancelacion => ledger = antes

\* C18 witness: the buyer, who is not the seller, asked again for a
\* cancellation already requested.
C18_Witness ==
    /\ LlamadaSobreOrden("cancelar_orden")
    /\ last.caller = OrdenAntes.comprador_id
    /\ last.caller # OrdenAntes.publicacion.vendedor_id
    /\ OrdenAntes.estado = "Pendiente"
    /\ OrdenAntes.peticion_cancelacion
    /\ last.res.ok

\* The last call named an order position outside the order sequence, and its
\* caller passed the registration and role checks of the message.
LlamadaSobreOrdenInexistente ==
    /\ \/ last.op = "marcar_enviado" /\ LlamadorVendedor
       \/ last.op = "marcar_recibido" /\ LlamadorComprador
       \/ last.op = "cancelar_orden" /\ LlamadorRegistrado
    /\ ~InRange(antes_ordenes, last.args[1])

\* C19: marcar_enviado, marcar_recibido and cancelar_orden with an order
\* position outside the order sequence fail with an order-existence error that
\* is a different value from the PublicacionNoExistente ordenar_compra returns
\* for an unknown publication; the ledger is unchanged.
C19_Literal ==
    LlamadaSobreOrdenInexistente =>
        /\ ~last.res.ok
        /\ last.res.err # "PublicacionNoExistente"
        /\ ledger = antes

\* C19 amended: the three messages fail with PublicacionNoExistente, the very
\* value ordenar_compra returns for an unknown publication, and the ledger is
\* unchanged; ordenar_compra by a buyer on an unknown publication returns it too.
C19_MismoErrorDeExistencia ==
    /\ LlamadaSobreOrdenInexistente =>
        /\ last.res = Err("PublicacionNoExistente")
        /\ ledger = antes
    /\ (/\ last.op = "ordenar_compra"
        /\ LlamadorComprador
        /\ ~InRange(antes_publicaciones, last.args[1])) =>
        /\ last.res = Err("PublicacionNoExistente")
        /\ ledger = antes

\* C19 witness: the seller named the position just past the end of a
\* non-empty order sequence in cancelar_orden.
C19_Witness ==
    /\ last.op = "cancelar_orden"
    /\ LlamadorVendedor
    /\ Len(antes_ordenes) > 0
    /\ last.args[1] = Len(antes_ordenes)
    /\ last.res.err = "PublicacionNoExistente"

\* The messages that need a registered caller, and those among them that need
\* the capability of a seller or of a buyer.
MensajesConRegistro ==
    {"get_usuario", "cambiar_rol", "publicar", "get_publicaciones_vendedor",
     "get_publicaciones", "ordenar_compra", "get_ordenes_comprador", "get_ordenes",
     "marcar_enviado", "marcar_recibido", "cancelar_orden"}
MensajesDeVendedor == {"publicar", "get_publicaciones_vendedor", "marcar_enviado"}
MensajesDeComprador == {"ordenar_compra", "get_ordenes_comprador", "marcar_recibido"}
ErroresDeIdentidad == {"UsuarioNoRegistrado", "UsuarioNoEsVendedor", "UsuarioNoEsComprador"}

\* C20: the order of validation is fixed: every message first fails with
\* UsuarioNoRegistrado for an unregistered caller, then with UsuarioNoEsVendedor
\* (publicar, get_publicaciones_vendedor, marcar_enviado) or
\* UsuarioNoEsComprador (ordenar_compra, get_ordenes_comprador,
\* marcar_recibido) for a caller without the role, and only then reports an
\* existence, stock or state error.
C20_OrdenDeValidacion ==
    /\ (last.op \in MensajesConRegistro /\ ~LlamadorRegistrado) =>
        (last.res.err = "UsuarioNoRegistrado" /\ ledger = antes)
    /\ (/\ last.op \in MensajesDeVendedor
        /\ LlamadorRegistrado
        /\ antes_usuarios[last.caller].rol = "Comprador") =>
        (last.res.err = "UsuarioNoEsVendedor" /\ ledger = antes)
    /\ (/\ last.op \in MensajesDeComprador
        /\ LlamadorRegistrado
        /\ antes_usuarios[last.caller].rol = "Vendedor") =>
        (last.res.err = "UsuarioNoEsComprador" /\ ledger = antes)
    /\ (/\ last.op \in MensajesConRegistro
        /\ ~last.res.ok
        /\ last.res.err \notin ErroresDeIdentidad) =>
        /\ LlamadorRegistrado
        /\ last.op \in MensajesDeVendedor => antes_usuarios[last.caller].rol # "Comprador"
        /\ last.op \in MensajesDeComprador => antes_usuarios[last.caller].rol # "Vendedor"

\* C20 witness: a user with role Vendedor ordered from a position outside the
\* catalog and was told UsuarioNoEsComprador, after having been a buyer with an
\* order of their own.
C20_Witness ==
    /\ last.op = "ordenar_compra"
    /\ LlamadorRegistrado
    /\ antes_usuarios[last.caller].rol = "Vendedor"
    /\ ~InRange(antes_publicaciones, last.args[1])
    /\ last.res.err = "UsuarioNoEsComprador"
    /\ \E i \in PosOrds : At(ordenes_compra, i).comprador_id = last.caller

\* C21: es_vendedor passes exactly for Vendedor and Ambos and gives
\* UsuarioNoEsVendedor to Comprador; es_comprador passes exactly for Comprador
\* and Ambos and gives UsuarioNoEsComprador to Vendedor; every role passes at
\* least one of the two, and a refused call changes no state.
C21_ChequeosDeRol ==
    /\ \A rol \in Rol :
        LET usuario == [username |-> "agustin", rol |-> rol, account_id |-> "a1"]
        IN  /\ es_vendedor(usuario) <=> rol \in {"Vendedor", "Ambos"}
            /\ es_comprador(usuario) <=> rol \in {"Comprador", "Ambos"}
            /\ es_vendedor(usuario) \/ es_comprador(usuario)
    /\ (last.op \in MensajesDeVendedor /\ LlamadorRegistrado) =>
        /\ (last.res.err = "UsuarioNoEsVendedor") <=>
               (antes_usuarios[last.caller].rol = "Comprador")
        /\ (last.res.err = "UsuarioNoEsVendedor") => ledger = antes
    /\ (last.op \in MensajesDeComprador /\ LlamadorRegistrado) =>
        /\ (last.res.err = "UsuarioNoEsComprador") <=>
               (antes_usuarios[last.caller].rol = "Vendedor")
        /\ (last.res.err = "UsuarioNoEsComprador") => ledger = antes

\* C21 witness: with the three roles registered, the user with role Ambos
\* passed the buyer check of ordenar_compra after passing the seller check of
\* publicar, on their own publication.
C21_Witness ==
    /\ {usuarios[a].rol : a \in DOMAIN usuarios} = Rol
    /\ last.op = "ordenar_compra"
    /\ antes_usuarios[last.caller].rol = "Ambos"
    /\ last.res.ok
    /\ last.res.val.publicacion.vendedor_id = last.caller

\* C22: cambiar_rol by a registered caller succeeds for every pair of current
\* and new role, sets only the role of the caller's record and returns the
\* updated record, leaving the other users, the publications, the orders and
\* both indices unchanged; by an unregistered caller it fails with
\* UsuarioNoRegistrado and creates no record.
C22_CambioDeRol ==
    (last.op = "cambiar_rol") =>
        IF LlamadorRegistrado
        THEN /\ last.res.ok
             /\ last.res.val = [antes_usuarios[last.caller] EXCEPT !.rol = last.args[1]]
             /\ DOMAIN usuarios = DOMAIN antes_usuarios
             /\ usuarios[last.caller] = last.res.val
             /\ \A a \in DOMAIN usuarios \ {last.caller} : usuarios[a] = antes_usuarios[a]
             /\ publicaciones = antes_publicaciones
             /\ ordenes_compra = antes_ordenes
             /\ publicaciones_mapping = antes_publicaciones_mapping
             /\ ordenes_compra_mapping = antes_ordenes_mapping
        ELSE /\ last.res.err = "UsuarioNoRegistrado"
             /\ ledger = antes

\* C22 witness: a user with role Ambos who has a publication and an order on
\* it became Comprador, another user being registered.
C22_Witness ==
    /\ last.op = "cambiar_rol"
    /\ LlamadorRegistrado
    /\ antes_usuarios[last.caller].rol = "Ambos"
    /\ usuarios[last.caller].rol = "Comprador"
    /\ Cardinality(DOMAIN usuarios) > 1
    /\ \E i \in PosOrds :
        /\ At(ordenes_compra, i).publicacion.vendedor_id = last.caller
        /\ At(ordenes_compra, i).comprador_id = last.caller

\* The publications of the catalog whose seller is `cuenta`, and the orders of
\* the ledger whose buyer is `cuenta`, in the order of the sequence.
PublicacionesDe(cuenta) ==
    SelectSeq(publicaciones, LAMBDA pub : pub.vendedor_id = cuenta)
OrdenesDe(cuenta) ==
    SelectSeq(ordenes_compra, LAMBDA orden : orden.comprador_id = cuenta)

\* C23: get_publicaciones_vendedor by a registered caller with role Vendedor
\* or Ambos returns exactly the publications whose seller is the caller, each
\* once, in the order they were published, with their current stock, and none
\* of another seller.
C23_ListadoDelVendedor ==
    (/\ last.op = "get_publicaciones_vendedor"
     /\ LlamadorRegistrado
     /\ antes_usuarios[last.caller].rol \in {"Vendedor", "Ambos"}) =>
        /\ last.res.ok
        /\ last.res.val = PublicacionesDe(last.caller)

\* C24: get_ordenes_comprador by a registered caller with role Comprador or
\* Ambos returns exactly the orders whose buyer is the caller, each once, in
\* the order they were placed, with their current state and flag, and none of
\* another buyer.
C24_ListadoDelComprador ==
    (/\ last.op = "get_ordenes_comprador"
     /\ LlamadorRegistrado
     /\ antes_usuarios[last.caller].rol \in {"Comprador", "Ambos"}) =>
        /\ last.res.ok
        /\ last.res.val = OrdenesDe(last.caller)

\* C25: get_publicaciones and get_ordenes succeed for every registered caller
\* whatever the role and return the whole catalog and the whole order ledger
\* in insertion order, empty when nothing exists; for an unregistered caller
\* they fail with UsuarioNoRegistrado.
C25_ListadosCompletos ==
    /\ (last.op = "get_publicaciones") =>
        IF LlamadorRegistrado
        THEN last.res.ok /\ last.res.val = publicaciones /\ ledger = antes
        ELSE last.res.err = "UsuarioNoRegistrado" /\ ledger = antes
    /\ (last.op = "get_ordenes") =>
        IF LlamadorRegistrado
        THEN last.res.ok /\ last.res.val = ordenes_compra /\ ledger = antes
        ELSE last.res.err = "UsuarioNoRegistrado" /\ ledger = antes

\* C25 witness: a user with role Vendedor got, from get_ordenes, the orders of
\* two different buyers.
C25_Witness ==
    /\ last.op = "get_ordenes"
    /\ LlamadorRegistrado
    /\ antes_usuarios[last.caller].rol = "Vendedor"
    /\ last.res.ok
    /\ Cardinality({last.res.val[i].comprador_id : i \in 1 .. Len(last.res.val)}) = 2

\* C26: a publication's stock changes only in a successful ordenar_compra
\* against it (down by the quantity) and in a successful approval by the seller
\* of the cancellation of an order against it (up by the quantity); every other
\* message, the buyer's request and every failed call leave every existing
\* publication's stock unchanged.
C26_SoloOrdenYAprobacion ==
    \A p \in 0 .. Len(antes_publicaciones) - 1 :
        At(publicaciones, p).stock # At(antes_publicaciones, p).stock =>
            \/ /\ last.op = "ordenar_compra"
               /\ last.res.ok
               /\ last.args[1] = p
               /\ At(publicaciones, p).stock =
                      At(antes_publicaciones, p).stock - last.args[2]
            \/ /\ LlamadaSobreOrden("cancelar_orden")
               /\ last.res.ok
               /\ last.caller = OrdenAntes.publicacion.vendedor_id
               /\ OrdenAntes.publicacion.id_publicacion = p
               /\ OrdenAhora.estado = "Cancelada"
               /\ At(publicaciones, p).stock =
                      At(antes_publicaciones, p).stock + OrdenAntes.cantidad

\* C27: in every reachable state the publication at position i of the catalog
\* has id i; publicar gives the new publication the current catalog length as
\* its id, ids are never reused or changed, and the recorded seller is the
\* caller, who had role Vendedor or Ambos when calling.
C27_IdEsPosicion ==
    /\ \A i \in PosPubs : At(publicaciones, i).id_publicacion = i
    /\ Len(antes_publicaciones) <= Len(publicaciones)
    /\ \A i \in 0 .. Len(antes_publicaciones) - 1 :
        /\ At(publicaciones, i).id_publicacion = At(antes_publicaciones, i).id_publicacion
        /\ At(publicaciones, i).vendedor_id = At(antes_publicaciones, i).vendedor_id
    /\ \A i \in Len(antes_publicaciones) .. Len(publicaciones) - 1 :
        /\ last.op = "publicar"
        /\ At(publicaciones, i).vendedor_id = last.caller
        /\ LlamadorRegistrado
        /\ antes_usuarios[last.caller].rol \in {"Vendedor", "Ambos"}
    /\ (last.op = "publicar" /\ last.res.ok) =>
        /\ last.res.val.id_publicacion = Len(antes_publicaciones)
        /\ publicaciones = Append(antes_publicaciones, last.res.val)

\* C27 witness: the third publication of a catalog of two sellers was
\* published by the user with role Ambos.
C27_Witness ==
    /\ last.op = "publicar"
    /\ last.res.ok
    /\ Len(publicaciones) = 3
    /\ antes_usuarios[last.caller].rol = "Ambos"
    /\ \E i \in PosPubs : At(publicaciones, i).vendedor_id # last.caller

\* The places <<account, k>> of an index that hold position p.
Lugares(indice, p) ==
    UNION {{<<a, k>> : k \in {j \in 1 .. Len(indice[a]) : indice[a][j] = p}} :
           a \in DOMAIN indice}

\* An index whose entries grow strictly.
Creciente(ids) == \A j, k \in 1 .. Len(ids) : j < k => ids[j] < ids[k]

\* C28: in every reachable state every entry of a seller's index is a catalog
\* position holding a publication of that seller, every entry of a buyer's
\* index is an order position holding an order of that buyer, each publication
\* position is in exactly one seller index exactly once and each order
\* position in exactly one buyer index exactly once, and each index is
\* strictly increasing.
C28_IndicesValidos ==
    /\ \A a \in DOMAIN publicaciones_mapping :
        /\ \A k \in 1 .. Len(publicaciones_mapping[a]) :
            /\ InRange(publicaciones, publicaciones_mapping[a][k])
            /\ At(publicaciones, publicaciones_mapping[a][k]).vendedor_id = a
        /\ Creciente(publicaciones_mapping[a])
    /\ \A a \in DOMAIN ordenes_compra_mapping :
        /\ \A k \in 1 .. Len(ordenes_compra_mapping[a]) :
            /\ InRange(ordenes_compra, ordenes_compra_mapping[a][k])
            /\ At(ordenes_compra, ordenes_compra_mapping[a][k]).comprador_id = a
        /\ Creciente(ordenes_compra_mapping[a])
    /\ \A p \in PosPubs : Cardinality(Lugares(publicaciones_mapping, p)) = 1
    /\ \A o \in PosOrds : Cardinality(Lugares(ordenes_compra_mapping, o)) = 1

\* C29: once an order exists, its quantity, its buyer and every field of its
\* publication snapshot never change under any later call (later orders on the
\* same publication, the approval of a cancellation and the seller's change of
\* role included); only its state and its flag can change.
C29_OrdenInmutable ==
    /\ Len(antes_ordenes) <= Len(ordenes_compra)
    /\ \A i \in PosOrdsAntes :
        /\ At(ordenes_compra, i).cantidad = At(antes_ordenes, i).cantidad
        /\ At(ordenes_compra, i).comprador_id = At(antes_ordenes, i).comprador_id
        /\ At(ordenes_compra, i).publicacion = At(antes_ordenes, i).publicacion
        /\ DOMAIN At(ordenes_compra, i) = DOMAIN At(antes_ordenes, i)

\* C29 witness: the seller, who has become a Comprador, approved the
\* cancellation of the first order after a second order was placed on the same
\* publication; the first order's snapshot still shows the stock of its
\* placement, which is not the stock of the catalog.
C29_Witness ==
    /\ LlamadaSobreOrden("cancelar_orden")
    /\ last.args[1] = 0
    /\ last.res.ok
    /\ OrdenAhora.estado = "Cancelada"
    /\ usuarios[last.caller].rol = "Comprador"
    /\ Len(ordenes_compra) = 2
    /\ OrdenAhora.publicacion.stock = 1
    /\ At(publicaciones, OrdenAhora.publicacion.id_publicacion).stock # 1

\* C30: every order stored in the ledger has a quantity of at least 1; no
\* ordenar_compra creates an order of quantity 0.
C30_CantidadPositiva ==
    \A i \in PosOrds : At(ordenes_compra, i).cantidad >= 1

\* C31: there is at most one user record per account, the record stored under
\* an account carries that account, a registered account stays registered, a
\* record's name never changes, and only cambiar_rol by the account itself
\* alters its role.
C31_RegistroEstable ==
    /\ \A a \in DOMAIN usuarios : usuarios[a].account_id = a
    /\ DOMAIN antes_usuarios \subseteq DOMAIN usuarios
    /\ \A a \in DOMAIN antes_usuarios :
        /\ usuarios[a].username = antes_usuarios[a].username
        /\ usuarios[a].rol # antes_usuarios[a].rol =>
            (last.op = "cambiar_rol" /\ last.caller = a /\ last.res.ok)
    /\ \A a \in DOMAIN usuarios \ DOMAIN antes_usuarios :
        last.op = "registrar_usuario" /\ last.caller = a /\ last.res.ok

\* C31 witness: a user registered as agustin, changed role while two other
\* accounts, one of them named maria, were registered.
C31_Witness ==
    /\ last.op = "cambiar_rol"
    /\ last.res.ok
    /\ usuarios[last.caller].rol # antes_usuarios[last.caller].rol
    /\ usuarios[last.caller].username = "agustin"
    /\ Cardinality(DOMAIN usuarios) = 3
    /\ \E a \in DOMAIN usuarios : usuarios[a].username = "maria"

\* C32: the catalog and the order ledger are append-only: in every call each
\* length stays or grows by one, no entry moves or disappears, and of an
\* existing publication only the stock can change.
C32_SoloSeAgrega ==
    /\ Len(publicaciones) \in {Len(antes_publicaciones), Len(antes_publicaciones) + 1}
    /\ Len(ordenes_compra) \in {Len(antes_ordenes), Len(antes_ordenes) + 1}
    /\ \A i \in 0 .. Len(antes_publicaciones) - 1 :
        At(publicaciones, i) =
            [At(antes_publicaciones, i) EXCEPT !.stock = At(publicaciones, i).stock]
    /\ \A i \in PosOrdsAntes :
        At(ordenes_compra, i) =
            [At(antes_ordenes, i) EXCEPT
                !.estado = At(ordenes_compra, i).estado,
                !.peticion_cancelacion = At(ordenes_compra, i).peticion_cancelacion]

\* C32 witness: an order on the first of two publications was cancelled, so
\* that the first publication was written after the second was appended.
C32_Witness ==
    /\ Len(publicaciones) = 2
    /\ LlamadaSobreOrden("cancelar_orden")
    /\ OrdenAhora.estado = "Cancelada"
    /\ OrdenAhora.publicacion.id_publicacion = 0
    /\ At(publicaciones, 0).stock # At(antes_publicaciones, 0).stock

\* An order whose buyer is the seller of its snapshot.
OrdenPropia(orden) == orden.comprador_id = orden.publicacion.vendedor_id

C34_PeticionNoBloqueaEnvio ==
    /\ (/\ LlamadaSobreOrden("marcar_enviado")
        /\ OrdenAntes.estado = "Pendiente"
        /\ OrdenAntes.peticion_cancelacion
        /\ last.caller = OrdenAntes.publicacion.vendedor_id
        /\ antes_usuarios[last.caller].rol # "Comprador") =>
            /\ last.res.ok
            /\ OrdenAhora = [OrdenAntes EXCEPT !.estado = "Enviada"]
            /\ OrdenAhora.peticion_cancelacion
    /\ (/\ LlamadaSobreOrden("cancelar_orden")
        /\ OrdenAntes.estado \in {"Enviada", "Recibida"}
        /\ last.caller \in {OrdenAntes.comprador_id, OrdenAntes.publicacion.vendedor_id}) =>
            /\ last.res.err = "OrdenNoPendiente"
            /\ <<usuarios, publicaciones, ordenes_compra, publicaciones_mapping,
                 ordenes_compra_mapping>> = antes
    /\ \A i \in PosOrdsAntes :
        /\ At(antes_ordenes, i).estado \in {"Enviada", "Recibida"} =>
            At(ordenes_compra, i).estado \in {"Enviada", "Recibida"}
        /\ At(antes_ordenes, i).estado = "Cancelada" =>
            At(ordenes_compra, i).estado = "Cancelada"

\* C34 witness: the seller was refused the approval of an order that was
\* shipped with the request flag set.
C34_Witness ==
    /\ LlamadaSobreOrden("cancelar_orden")
    /\ OrdenAntes.estado = "Enviada"
    /\ OrdenAntes.peticion_cancelacion
    /\ last.caller = OrdenAntes.publicacion.vendedor_id
    /\ last.caller # OrdenAntes.comprador_id
    /\ last.res.err = "OrdenNoPendiente"

\* C35: roles are read when the call is made, not when the order was placed.
\* A snapshot seller whose role is now Comprador is refused marcar_enviado on
\* their Pendiente order with UsuarioNoEsVendedor, the order staying Pendiente,
\* while their cancelar_orden on a requested order succeeds (and cancels it
\* when they are not also its buyer); a buyer whose role is now Vendedor is
\* refused marcar_recibido on their Enviada order with UsuarioNoEsComprador,
\* while their cancelar_orden on a Pendiente order succeeds and sets the flag.
C35_RolAlLlamar ==
    /\ (/\ LlamadaSobreOrden("marcar_enviado")
        /\ OrdenAntes.estado = "Pendiente"
        /\ last.caller = OrdenAntes.publicacion.vendedor_id
        /\ antes_usuarios[last.caller].rol = "Comprador") =>
            /\ last.res.err = "UsuarioNoEsVendedor"
            /\ ledger = antes
    /\ (/\ LlamadaSobreOrden("cancelar_orden")
        /\ OrdenAntes.estado = "Pendiente"
        /\ OrdenAntes.peticion_cancelacion
        /\ last.caller = OrdenAntes.publicacion.vendedor_id
        /\ antes_usuarios[last.caller].rol = "Comprador") =>
            /\ last.res.ok
            /\ last.caller # OrdenAntes.comprador_id => OrdenAhora.estado = "Cancelada"
    /\ (/\ LlamadaSobreOrden("marcar_recibido")
        /\ OrdenAntes.estado = "Enviada"
        /\ last.caller = OrdenAntes.comprador_id
        /\ antes_usuarios[last.caller].rol = "Vendedor") =>
            /\ last.res.err = "UsuarioNoEsComprador"
            /\ ledger = antes
    /\ (/\ LlamadaSobreOrden("cancelar_orden")
        /\ OrdenAntes.estado = "Pendiente"
        /\ last.caller = OrdenAntes.comprador_id
        /\ antes_usuarios[last.caller].rol = "Vendedor") =>
            /\ last.res.ok
            /\ OrdenAhora = [OrdenAntes EXCEPT !.peticion_cancelacion = TRUE]

\* C35 witness: two orders of a seller who then took the role Comprador; the
\* seller approved the cancellation of one and is refused the shipping of the
\* other.
C35_Witness ==
    /\ LlamadaSobreOrden("marcar_enviado")
    /\ OrdenAntes.estado = "Pendiente"
    /\ last.caller = OrdenAntes.publicacion.vendedor_id
    /\ usuarios[last.caller].rol = "Comprador"
    /\ last.res.err = "UsuarioNoEsVendedor"
    /\ \E i \in PosOrds :
        /\ At(ordenes_compra, i).estado = "Cancelada"
        /\ At(ordenes_compra, i).publicacion.vendedor_id = last.caller
        /\ i > last.args[1]

\* An account placed an order as a buyer, took the role Vendedor, and is
\* refused the reception of the shipped order.
C35_CompradorQueCambia ==
    /\ LlamadaSobreOrden("marcar_recibido")
    /\ OrdenAntes.estado = "Enviada"
    /\ last.caller = OrdenAntes.comprador_id
    /\ usuarios[last.caller].rol = "Vendedor"
    /\ last.res.err = "UsuarioNoEsComprador"

\* C36: every Cancelada order has peticion_cancelacion set.
C36_CanceladaConPeticion ==
    \A i \in PosOrds :
        At(ordenes_compra, i).estado = "Cancelada" =>
            At(ordenes_compra, i).peticion_cancelacion

\* C36 witness: a Cancelada order next to a Pendiente order nobody asked to
\* cancel and which its seller was refused to cancel.
C36_Witness ==
    /\ LlamadaSobreOrden("cancelar_orden")
    /\ last.res.err = "PeticionNoSolicitada"
    /\ \E i \in PosOrds :
        /\ At(ordenes_compra, i).estado = "Cancelada"
        /\ At(ordenes_compra, i).publicacion.vendedor_id = last.caller

\* C37: peticion_cancelacion is false in every new order; the flag of an
\* existing order changes only from false to true, only while the order is
\* Pendiente, and only in a successful cancelar_orden of the order's buyer on
\* that order; a flag that is true stays true.
C37_PeticionSoloSube ==
    /\ \A i \in PosOrds \ PosOrdsAntes : ~At(ordenes_compra, i).peticion_cancelacion
    /\ \A i \in PosOrdsAntes :
        /\ At(antes_ordenes, i).peticion_cancelacion =>
            At(ordenes_compra, i).peticion_cancelacion
        /\ At(ordenes_compra, i).peticion_cancelacion
               # At(antes_ordenes, i).peticion_cancelacion =>
            /\ At(antes_ordenes, i).estado = "Pendiente"
            /\ At(ordenes_compra, i).estado = "Pendiente"
            /\ last.op = "cancelar_orden"
            /\ last.res.ok
            /\ last.args[1] = i
            /\ last.caller = At(antes_ordenes, i).comprador_id

\* C37 witness: an order was received with its flag set, and the buyer of
\* another order has just set that order's flag.
C37_Witness ==
    /\ LlamadaSobreOrden("cancelar_orden")
    /\ ~OrdenAntes.peticion_cancelacion
    /\ OrdenAhora.peticion_cancelacion
    /\ \E i \in PosOrds :
        /\ At(ordenes_compra, i).estado = "Recibida"
        /\ At(ordenes_compra, i).peticion_cancelacion

\* C38: the stock of a publication never exceeds the stock it was published
\* with, so the addition of the seller's approval stays within the range of
\* the stock and no call returns OverflowPublicaciones.
C38_SinDesbordeDeStock ==
    /\ \A p \in PosPubs : At(publicaciones, p).stock <= At(stock_publicado, p)
    /\ \A p \in PosPubs : At(stock_publicado, p) <= U64Max
    /\ last.res.ok \/ last.res.err # "OverflowPublicaciones"
    /\ (/\ LlamadaSobreOrden("cancelar_orden")
        /\ last.res.ok
        /\ OrdenAhora.estado = "Cancelada") =>
            LET p == OrdenAntes.publicacion.id_publicacion
            IN  At(antes_publicaciones, p).stock + OrdenAntes.cantidad
                    <= At(stock_publicado, p)

\* C38 witness: an approval brought the stock back to the largest value the
\* stock can hold.
C38_Witness ==
    /\ LlamadaSobreOrden("cancelar_orden")
    /\ last.res.ok
    /\ OrdenAhora.estado = "Cancelada"
    /\ OrdenAntes.cantidad > 0
    /\ At(publicaciones, OrdenAntes.publicacion.id_publicacion).stock = U64Max

\* C39: with the position counter of the seller index U32Bits wide, a publicar
\* whose new position does not fit the counter fails with
\* UnderflowPublicaciones, every publicar that fails with that error appends
\* nothing to the catalog or to the seller index, and every successful publicar
\* records in the caller's index a position equal to the new publication's id.
C39_ContadorDePosicion ==
    /\ (/\ last.op = "publicar"
        /\ LlamadorVendedor
        /\ Len(antes_publicaciones) >= U32Mod) =>
            last.res.err = "UnderflowPublicaciones"
    /\ (last.op = "publicar" /\ ~last.res.ok
        /\ last.res.err = "UnderflowPublicaciones") =>
            /\ publicaciones = antes_publicaciones
            /\ publicaciones_mapping = antes_publicaciones_mapping
    /\ (last.op = "publicar" /\ last.res.ok) =>
        LET indice == publicaciones_mapping[last.caller]
        IN  /\ Len(indice) = Len(GetOrDefault(antes_publicaciones_mapping, last.caller)) + 1
            /\ indice[Len(indice)] = last.res.val.id_publicacion

\* C39 witness: the publicar whose new position is the first that does not fit
\* the counter returned Ok and recorded position 0 for it.
C39_Witness ==
    /\ last.op = "publicar"
    /\ last.res.ok
    /\ last.res.val.id_publicacion = U32Mod
    /\ publicaciones_mapping[last.caller][Len(publicaciones_mapping[last.caller])] = 0

\* The publicar that fills the catalog to the counter's range failed with
\* UnderflowPublicaciones and left its publication in the catalog.
C39_FalloConEscritura ==
    /\ last.op = "publicar"
    /\ ~last.res.ok
    /\ last.res.err = "UnderflowPublicaciones"
    /\ Len(publicaciones) = Len(antes_publicaciones) + 1
    /\ Len(publicaciones) = U32Mod
====
